---- MODULE Spec2Model ----
(***************************************************************************)
(* cirq/ops/cxswap_czswap.py: the two fused gates CZSWAPGate and           *)
(* CXSWAPGate.  Gate instances are objects without fields; a call of       *)
(* _decompose_ makes a generator object that is advanced by next().        *)
(***************************************************************************)
EXTENDS Integers, Sequences, FiniteSets, TLC

VARIABLES gates, gens, ret

vars == <<gates, gens, ret>>

\* Live objects (gate instances plus generators) in one behaviour.
MaxObjs == 3
\* Longest qubit tuple handed to _decompose_.
MaxArity == 3

Qubits == {"q0", "q1"}

Classes == {"CZSWAPGate", "CXSWAPGate"}

\* Sequences over S of length at most n.
RECURSIVE SeqsUpTo(_, _)
SeqsUpTo(S, n) ==
    IF n = 0 THEN {<<>>}
    ELSE LET shorter == SeqsUpTo(S, n - 1)
         IN  shorter \cup {Append(s, x) : s \in {t \in shorter : Len(t) = n - 1}, x \in S}

QubitTuples == SeqsUpTo(Qubits, MaxArity)

-----------------------------------------------------------------------------
(* Collaborators: operation constructors and the matrices of SWAP, CZ, CNOT *)

\* cirq.SWAP(a, b), cirq.CZ(a, b), cirq.CNOT(a, b): an operation on (a, b).
Op(name, a, b) == [gate |-> name, qubits |-> <<a, b>>]

\* Basis index 1..4 is |00>, |01>, |10>, |11>; the first qubit is the high bit.
Bit1(k) == (k - 1) \div 2
Bit2(k) == (k - 1) % 2
Idx(a, b) == 2 * a + b + 1

BasisIdx == {Idx(a, b) : a \in {0, 1}, b \in {0, 1}}

\* M[i][j] is the amplitude of |i> in G|j>.
SWAP_matrix ==
    [i \in BasisIdx |-> [j \in BasisIdx |->
        IF i = Idx(Bit2(j), Bit1(j)) THEN 1 ELSE 0]]

CZ_matrix ==
    [i \in BasisIdx |-> [j \in BasisIdx |->
        IF i # j THEN 0 ELSE IF Bit1(j) = 1 /\ Bit2(j) = 1 THEN -1 ELSE 1]]

\* first qubit control, second qubit target
CNOT_matrix ==
    [i \in BasisIdx |-> [j \in BasisIdx |->
        IF i = Idx(Bit1(j), (Bit1(j) + Bit2(j)) % 2) THEN 1 ELSE 0]]

Basis(k) == [i \in BasisIdx |-> IF i = k THEN 1 ELSE 0]

RowDot(r, v) == r[1] * v[1] + r[2] * v[2] + r[3] * v[3] + r[4] * v[4]

MatVec(M, v) == [i \in BasisIdx |-> RowDot(M[i], v)]

Scale(c, v) == [i \in BasisIdx |-> c * v[i]]

\* Exchange of the two qubits: basis indices |01> and |10> trade places.
Flip(k) == Idx(Bit2(k), Bit1(k))

ExchangeQubits(M) == [i \in BasisIdx |-> [j \in BasisIdx |-> M[Flip(i)][Flip(j)]]]

-----------------------------------------------------------------------------
(* class CZSWAPGate *)

CZSWAPGate_bases == {"InterchangeableQubitsGate", "Gate"}

CZSWAPGate_num_qubits == 2

CZSWAPGate_unitary_NoPhaseFlip ==
    << <<1, 0, 0, 0>>,
       <<0, 0, 1, 0>>,
       <<0, 1, 0, 0>>,
       <<0, 0, 0, 1>> >>

CZSWAPGate_unitary_Directed ==
    << <<1, 0, 0, 0>>,
       <<0, 0, 1, 0>>,
       <<0, 0, 0, -1>>,
       <<0, 1, 0, 0>> >>

CZSWAPGate_unitary ==
    << <<1, 0, 0, 0>>,
       <<0, 0, 1, 0>>,
       <<0, 1, 0, 0>>,
       <<0, 0, 0, -1>> >>

CZSWAPGate_has_unitary == TRUE

CZSWAPGate_circuit_diagram_info == <<"CZSWAPGate", "CZSWAPGate">>

CZSWAPGate_value_equality_values_Identity(self) == <<self.id>>

CZSWAPGate_value_equality_values(self) == <<>>

CZSWAPGate_repr == "cirq.CZSWAPGate()"

\* One next() on a generator of CZSWAPGate._decompose_.
CZSWAPGate_decompose_Slice(g) ==
    CASE g.pc = "created" ->
            IF Len(g.qubits) >= 2
            THEN [g EXCEPT !.pc = "after_swap",
                           !.out = Append(@, Op("SWAP", g.qubits[1], g.qubits[2]))]
            ELSE [g EXCEPT !.pc = "finished", !.err = "ValueError"]
      [] g.pc = "after_swap" ->
            [g EXCEPT !.pc = "after_second",
                      !.out = Append(@, Op("CZ", g.qubits[1], g.qubits[2]))]
      [] OTHER ->
            [g EXCEPT !.pc = "finished", !.err = "StopIteration"]

CZSWAPGate_decompose(g) ==
    CASE g.pc = "created" ->
            IF Len(g.qubits) = 2
            THEN [g EXCEPT !.pc = "after_swap",
                           !.out = Append(@, Op("SWAP", g.qubits[1], g.qubits[2]))]
            ELSE [g EXCEPT !.pc = "finished", !.err = "ValueError"]
      [] g.pc = "after_swap" ->
            [g EXCEPT !.pc = "after_second",
                      !.out = Append(@, Op("CZ", g.qubits[1], g.qubits[2]))]
      [] OTHER ->
            [g EXCEPT !.pc = "finished", !.err = "StopIteration"]

-----------------------------------------------------------------------------
(* class CXSWAPGate *)

CXSWAPGate_bases_Interchangeable == {"InterchangeableQubitsGate", "Gate"}

CXSWAPGate_bases == {"Gate"}

CXSWAPGate_num_qubits == 2

CXSWAPGate_unitary_CnotFirst ==
    << <<1, 0, 0, 0>>,
       <<0, 0, 0, 1>>,
       <<0, 1, 0, 0>>,
       <<0, 0, 1, 0>> >>

CXSWAPGate_unitary_Signed ==
    << <<1, 0, 0, 0>>,
       <<0, 0, 1, 0>>,
       <<0, 0, 0, 1>>,
       <<0, -1, 0, 0>> >>

CXSWAPGate_unitary ==
    << <<1, 0, 0, 0>>,
       <<0, 0, 1, 0>>,
       <<0, 0, 0, 1>>,
       <<0, 1, 0, 0>> >>

CXSWAPGate_has_unitary == TRUE

CXSWAPGate_circuit_diagram_info == <<"CXSWAPGate", "CXSWAPGate">>

CXSWAPGate_value_equality_values(self) == <<>>

CXSWAPGate_repr_Copied == "cirq.CZSWAPGate()"

CXSWAPGate_repr == "cirq.CXSWAPGate()"

\* One next() on a generator of CXSWAPGate._decompose_.
CXSWAPGate_decompose_Reversed(g) ==
    CASE g.pc = "created" ->
            IF Len(g.qubits) = 2
            THEN [g EXCEPT !.pc = "after_swap",
                           !.out = Append(@, Op("SWAP", g.qubits[1], g.qubits[2]))]
            ELSE [g EXCEPT !.pc = "finished", !.err = "ValueError"]
      [] g.pc = "after_swap" ->
            [g EXCEPT !.pc = "after_second",
                      !.out = Append(@, Op("CNOT", g.qubits[2], g.qubits[1]))]
      [] OTHER ->
            [g EXCEPT !.pc = "finished", !.err = "StopIteration"]

CXSWAPGate_decompose(g) ==
    CASE g.pc = "created" ->
            IF Len(g.qubits) = 2
            THEN [g EXCEPT !.pc = "after_swap",
                           !.out = Append(@, Op("SWAP", g.qubits[1], g.qubits[2]))]
            ELSE [g EXCEPT !.pc = "finished", !.err = "ValueError"]
      [] g.pc = "after_swap" ->
            [g EXCEPT !.pc = "after_second",
                      !.out = Append(@, Op("CNOT", g.qubits[1], g.qubits[2]))]
      [] OTHER ->
            [g EXCEPT !.pc = "finished", !.err = "StopIteration"]

-----------------------------------------------------------------------------
(* Method dispatch on the class of the receiver *)

Bases(cls) == IF cls = "CZSWAPGate" THEN CZSWAPGate_bases ELSE CXSWAPGate_bases

NumQubits(cls) ==
    IF cls = "CZSWAPGate" THEN CZSWAPGate_num_qubits ELSE CXSWAPGate_num_qubits

Unitary(cls) == IF cls = "CZSWAPGate" THEN CZSWAPGate_unitary ELSE CXSWAPGate_unitary

HasUnitary(cls) ==
    IF cls = "CZSWAPGate" THEN CZSWAPGate_has_unitary ELSE CXSWAPGate_has_unitary

DiagramInfo(cls) ==
    IF cls = "CZSWAPGate" THEN CZSWAPGate_circuit_diagram_info
    ELSE CXSWAPGate_circuit_diagram_info

ValueEqualityValues(obj) ==
    IF obj.cls = "CZSWAPGate" THEN CZSWAPGate_value_equality_values(obj)
    ELSE CXSWAPGate_value_equality_values(obj)

Repr(cls) == IF cls = "CZSWAPGate" THEN CZSWAPGate_repr ELSE CXSWAPGate_repr

GenNext(cls, g) ==
    IF cls = "CZSWAPGate" THEN CZSWAPGate_decompose(g) ELSE CXSWAPGate_decompose(g)

-----------------------------------------------------------------------------
(* Collaborators: value equality, operation equality, evaluation of a repr *)

\* The object behind gate handle i.
Obj(i) == [kind |-> "gate", cls |-> gates[i], id |-> i]

\* Values a gate can be compared with that are none of the two classes.
Unrelated ==
    { [kind |-> "gate", cls |-> "SwapPowGate", id |-> 0],
      [kind |-> "value", cls |-> "int", id |-> 0],
      [kind |-> "value", cls |-> "NoneType", id |-> 0] }

\* __eq__ installed by @value_equality(): NotImplemented unless other is an
\* instance of the class of self, else the comparison of the value tuples.
ValueEqualityEq(self, other) ==
    IF other.cls # self.cls THEN "NotImplemented"
    ELSE IF ValueEqualityValues(self) = ValueEqualityValues(other) THEN "True"
    ELSE "False"

\* self == other: __eq__, then the reflected __eq__ of a gate of the two
\* classes, then object identity.
PyEq(self, other) ==
    LET r == ValueEqualityEq(self, other)
        rr == IF other.cls \in Classes THEN ValueEqualityEq(other, self)
              ELSE "NotImplemented"
    IN  IF r # "NotImplemented" THEN r = "True"
        ELSE IF rr # "NotImplemented" THEN rr = "True"
        ELSE other.kind = self.kind /\ other.cls = self.cls /\ other.id = self.id

\* The qubits of gate(qs) as operation equality sees them: one unordered
\* group for an InterchangeableQubitsGate, the tuple otherwise.
GroupInterchangeableQubits(cls, qs) ==
    IF "InterchangeableQubitsGate" \in Bases(cls)
    THEN [grouped |-> TRUE, group |-> {qs[k] : k \in DOMAIN qs}, order |-> <<>>]
    ELSE [grouped |-> FALSE, group |-> {}, order |-> qs]

\* gate(qs1) == gate(qs2) for one gate instance.
OperationEq(self, qs1, qs2) ==
    /\ PyEq(self, self)
    /\ GroupInterchangeableQubits(self.cls, qs1) = GroupInterchangeableQubits(self.cls, qs2)

\* eval of a constructor-call string in the cirq namespace: the class built.
EvalRepr(s) ==
    CASE s = "cirq.CZSWAPGate()" -> "CZSWAPGate"
      [] s = "cirq.CXSWAPGate()" -> "CXSWAPGate"
      [] OTHER -> "NameError"

-----------------------------------------------------------------------------
(* The generator protocol *)

NewGen(i, qs) ==
    [self |-> i, qubits |-> qs, pc |-> "created", out |-> <<>>, err |-> "none"]

\* list(gen): next() until the generator finishes.
RECURSIVE Exhaust(_, _)
Exhaust(cls, g) == IF g.pc = "finished" THEN g ELSE Exhaust(cls, GenNext(cls, g))

-----------------------------------------------------------------------------

NoRet == [op |-> "none"]

Init ==
    /\ gates = <<>>
    /\ gens = <<>>
    /\ ret = NoRet

NumObjs == Len(gates) + Len(gens)

\* CZSWAPGate() or CXSWAPGate()
Construct(cls) ==
    /\ NumObjs < MaxObjs
    /\ gates' = Append(gates, cls)
    /\ UNCHANGED <<gens, ret>>

NumQubitsCall(i) ==
    /\ ret' = [op |-> "num_qubits", self |-> i, cls |-> gates[i],
               value |-> NumQubits(gates[i])]
    /\ UNCHANGED <<gates, gens>>

UnitaryCall(i) ==
    /\ ret' = [op |-> "unitary", self |-> i, cls |-> gates[i],
               value |-> Unitary(gates[i])]
    /\ UNCHANGED <<gates, gens>>

HasUnitaryCall(i) ==
    /\ ret' = [op |-> "has_unitary", self |-> i, cls |-> gates[i],
               value |-> HasUnitary(gates[i])]
    /\ UNCHANGED <<gates, gens>>

DiagramInfoCall(i) ==
    /\ ret' = [op |-> "diagram", self |-> i, cls |-> gates[i],
               value |-> DiagramInfo(gates[i])]
    /\ UNCHANGED <<gates, gens>>

\* repr(gate), then eval of the string and comparison with the original
ReprCall(i) ==
    /\ LET s == Repr(gates[i])
           back == [kind |-> "gate", cls |-> EvalRepr(s), id |-> Len(gates) + 1]
       IN  ret' = [op |-> "repr", self |-> i, cls |-> gates[i], value |-> s,
                   built |-> back.cls, equal |-> PyEq(back, Obj(i))]
    /\ UNCHANGED <<gates, gens>>

\* gate == other
EqCall(i, other) ==
    /\ ret' = [op |-> "eq", self |-> i, cls |-> gates[i], other |-> other,
               value |-> PyEq(Obj(i), other)]
    /\ UNCHANGED <<gates, gens>>

\* gate(a, b) == gate(b, a)
OperationEqCall(i, a, b) ==
    /\ ret' = [op |-> "op_eq", self |-> i, cls |-> gates[i], qubits |-> <<a, b>>,
               value |-> OperationEq(Obj(i), <<a, b>>, <<b, a>>)]
    /\ UNCHANGED <<gates, gens>>

\* unitary(gate) @ e_k for the four basis vectors
ApplyToBasis(i) ==
    /\ ret' = [op |-> "apply", self |-> i, cls |-> gates[i],
               value |-> [k \in BasisIdx |-> MatVec(Unitary(gates[i]), Basis(k))]]
    /\ UNCHANGED <<gates, gens>>

\* the unitary with the roles of the two qubits exchanged
ExchangeCall(i) ==
    /\ ret' = [op |-> "exchange", self |-> i, cls |-> gates[i],
               value |-> ExchangeQubits(Unitary(gates[i]))]
    /\ UNCHANGED <<gates, gens>>

\* list(gate._decompose_(qs))
DecomposeOnce(i, qs) ==
    /\ LET g == Exhaust(gates[i], NewGen(i, qs))
       IN  ret' = [op |-> "decompose", self |-> i, cls |-> gates[i], qubits |-> qs,
                   value |-> g.out, err |-> g.err]
    /\ UNCHANGED <<gates, gens>>

\* gate._decompose_(qs): a generator object; no line of the body has run
Decompose(i, qs) ==
    /\ NumObjs < MaxObjs
    /\ gens' = Append(gens, NewGen(i, qs))
    /\ UNCHANGED <<gates, ret>>

NextGen_Shared(n) ==
    /\ gens[n].pc # "finished"
    /\ gens' = [gens EXCEPT ![n] =
           [GenNext(gates[gens[n].self], [gens[n] EXCEPT !.qubits = gens[Len(gens)].qubits])
               EXCEPT !.qubits = gens[n].qubits]]
    /\ UNCHANGED <<gates, ret>>

\* next(gen) on a generator that has not finished
NextGen(n) ==
    /\ gens[n].pc # "finished"
    /\ gens' = [gens EXCEPT ![n] = GenNext(gates[gens[n].self], gens[n])]
    /\ UNCHANGED <<gates, ret>>

Constructs == \E cls \in Classes : Construct(cls)
NumQubitsCalls == \E i \in DOMAIN gates : NumQubitsCall(i)
UnitaryCalls == \E i \in DOMAIN gates : UnitaryCall(i)
HasUnitaryCalls == \E i \in DOMAIN gates : HasUnitaryCall(i)
DiagramInfoCalls == \E i \in DOMAIN gates : DiagramInfoCall(i)
ReprCalls == \E i \in DOMAIN gates : ReprCall(i)
EqCalls ==
    \E i \in DOMAIN gates :
        \E other \in {Obj(j) : j \in DOMAIN gates} \cup Unrelated : EqCall(i, other)
OperationEqCalls == \E i \in DOMAIN gates : \E a, b \in Qubits : OperationEqCall(i, a, b)
ApplyToBasisCalls == \E i \in DOMAIN gates : ApplyToBasis(i)
ExchangeCalls == \E i \in DOMAIN gates : ExchangeCall(i)
DecomposeOnceCalls == \E i \in DOMAIN gates : \E qs \in QubitTuples : DecomposeOnce(i, qs)
DecomposeCalls == \E i \in DOMAIN gates : \E qs \in QubitTuples : Decompose(i, qs)
NextGenCalls == \E n \in DOMAIN gens : NextGen(n)

\* Construction, queries, comparisons and whole decompositions.
Next ==
    \/ Constructs
    \/ NumQubitsCalls
    \/ UnitaryCalls
    \/ HasUnitaryCalls
    \/ DiagramInfoCalls
    \/ ReprCalls
    \/ EqCalls
    \/ OperationEqCalls
    \/ ApplyToBasisCalls
    \/ ExchangeCalls
    \/ DecomposeOnceCalls

Spec == Init /\ [][Next]_vars

\* Generators consumed step by step, in any interleaving.
NextDecompose ==
    \/ Constructs
    \/ DecomposeCalls
    \/ NextGenCalls

SpecDecompose == Init /\ [][NextDecompose]_vars

-----------------------------------------------------------------------------
(* Properties *)

\* A global phase: a scalar of magnitude 1.  The matrices are real, and a
\* non-real phase never maps a non-zero real vector to a real vector.
Phases == {1, -1}

SecondGate(cls) == IF cls = "CZSWAPGate" THEN "CZ" ELSE "CNOT"

\* What a decomposition on (a, b) has to emit.
Expected(cls, a, b) == <<Op("SWAP", a, b), Op(SecondGate(cls), a, b)>>

\* Sub-operations a generator has produced when it rests at pc.
Emitted(pc) == IF pc = "created" THEN 0 ELSE IF pc = "after_swap" THEN 1 ELSE 2

\* C1: the CZSWAPGate unitary maps every basis vector to CZ(SWAP(e_k)) times
\* one phase of magnitude 1, the same for the four vectors.
C1_CZSWAPUnitaryIsCZAfterSWAP ==
    (ret.op = "apply" /\ ret.cls = "CZSWAPGate") =>
        \E c \in Phases : \A k \in BasisIdx :
            ret.value[k] = Scale(c, MatVec(CZ_matrix, MatVec(SWAP_matrix, Basis(k))))

C1_Witness ==
    /\ ret.op = "apply"
    /\ ret.cls = "CZSWAPGate"
    /\ ret.value[2] = Basis(3)
    /\ ret.value[4] = Scale(-1, Basis(4))

\* C2: the CXSWAPGate unitary maps every basis vector to CNOT(SWAP(e_k)),
\* first qubit control, times one phase of magnitude 1 shared by the four.
C2_CXSWAPUnitaryIsCNOTAfterSWAP ==
    (ret.op = "apply" /\ ret.cls = "CXSWAPGate") =>
        \E c \in Phases : \A k \in BasisIdx :
            ret.value[k] = Scale(c, MatVec(CNOT_matrix, MatVec(SWAP_matrix, Basis(k))))

C2_Witness ==
    /\ ret.op = "apply"
    /\ ret.cls = "CXSWAPGate"
    /\ ret.value[2] = Basis(4)
    /\ ret.value[3] = Basis(2)

\* C3: a generator made with two qubits (a, b) has emitted, at every point
\* of its consumption, a prefix of [SWAP(a, b), CZ(a, b)] (CZSWAPGate) or of
\* [SWAP(a, b), CNOT(a, b)] (CXSWAPGate), and ends after exactly these two.
C3_DecomposeEmitsSwapThenSecond ==
    \A n \in DOMAIN gens :
        LET g == gens[n] IN
        Len(g.qubits) = 2 =>
            /\ g.out = SubSeq(Expected(gates[g.self], g.qubits[1], g.qubits[2]),
                              1, Emitted(g.pc))
            /\ g.pc = "finished" => g.err = "StopIteration"
            /\ g.pc # "finished" => g.err = "none"

C3_Witness ==
    \E n, m \in DOMAIN gens :
        /\ gates[gens[n].self] = "CXSWAPGate"
        /\ gens[n].qubits = <<"q1", "q0">>
        /\ gens[n].pc = "finished"
        /\ gens[n].out = <<Op("SWAP", "q1", "q0"), Op("CNOT", "q1", "q0")>>
        /\ gens[m].qubits = <<"q0", "q1">>
        /\ gens[m].pc = "after_swap"

\* C4: gate == other is true exactly when other is an instance of the class
\* of gate, whatever the object identities; otherwise it is false.
C4_EqualsIffSameVariant ==
    ret.op = "eq" =>
        (ret.value <=> (ret.other.kind = "gate" /\ ret.other.cls = ret.cls))

C4_Witness ==
    /\ ret.op = "eq"
    /\ ret.other.cls = ret.cls
    /\ ret.other.id # ret.self
    /\ ret.value

\* C5: CZSWAPGate on (a, b) equals CZSWAPGate on (b, a); CXSWAPGate on (a, b)
\* differs from CXSWAPGate on (b, a) when a and b are distinct.
C5_InterchangeabilityIsAsymmetric ==
    ret.op = "op_eq" =>
        /\ ret.cls = "CZSWAPGate" => ret.value
        /\ (ret.cls = "CXSWAPGate" /\ ret.qubits[1] # ret.qubits[2]) => ~ret.value

C5_Witness ==
    /\ ret.op = "op_eq"
    /\ ret.cls = "CXSWAPGate"
    /\ ret.qubits[1] # ret.qubits[2]
    /\ ~ret.value

\* C6: a generator made with a number of qubits other than 2 ends at its
\* first next() with ValueError and has emitted no sub-operation.
C6_WrongArityRaisesBeforeAnyEmission ==
    \A n \in DOMAIN gens :
        LET g == gens[n] IN
        Len(g.qubits) # 2 =>
            /\ g.out = <<>>
            /\ g.pc \in {"created", "finished"}
            /\ g.pc = "finished" => g.err = "ValueError"

C6_Witness ==
    \E n, m \in DOMAIN gens :
        /\ Len(gens[n].qubits) = 3
        /\ gens[n].pc = "finished"
        /\ gates[gens[n].self] = "CZSWAPGate"
        /\ Len(gens[m].qubits) < 2
        /\ gens[m].pc = "finished"
        /\ gens[m].err = "ValueError"

SpecifiedUnitary(cls) ==
    IF cls = "CZSWAPGate"
    THEN << <<1, 0, 0, 0>>, <<0, 0, 1, 0>>, <<0, 1, 0, 0>>, <<0, 0, 0, -1>> >>
    ELSE << <<1, 0, 0, 0>>, <<0, 0, 1, 0>>, <<0, 0, 0, 1>>, <<0, 1, 0, 0>> >>

C7_Inv ==
    /\ ret.op = "unitary" => ret.value = SpecifiedUnitary(ret.cls)
    /\ ret.op = "has_unitary" => ret.value = TRUE

C7_Step ==
    (ret.op = "unitary" /\ ret'.op = "unitary" /\ ret'.cls = ret.cls) =>
        \A i, j \in BasisIdx : ret'.value[i][j] = ret.value[i][j]

\* C7: after any sequence of operations unitary() is the specified constant
\* matrix of the class, _has_unitary_ is true, and two calls on instances of
\* one class give element-wise identical matrices.
C7_UnitaryIsTheSpecifiedConstant == [](C7_Inv) /\ [][C7_Step]_vars

C7_Witness ==
    /\ ret.op = "unitary"
    /\ ret.cls = "CXSWAPGate"
    /\ ret.self = 2
    /\ gates[1] = "CXSWAPGate"

\* What the gates report, for the instances in gs.
Reported(gs) ==
    [i \in DOMAIN gs |->
        [unitary |-> Unitary(gs[i]), num_qubits |-> NumQubits(gs[i]),
         labels |-> DiagramInfo(gs[i]), has_unitary |-> HasUnitary(gs[i]),
         equal |-> {j \in DOMAIN gs :
                       PyEq([kind |-> "gate", cls |-> gs[i], id |-> i],
                            [kind |-> "gate", cls |-> gs[j], id |-> j])}]]

C8_Inv ==
    \A n \in DOMAIN gens :
        LET g == gens[n] IN
        /\ (Len(g.qubits) = 2 /\ g.pc = "finished") =>
               g.out = Expected(gates[g.self], g.qubits[1], g.qubits[2])
        /\ \A m \in DOMAIN gens :
               (/\ gates[gens[m].self] = gates[g.self]
                /\ gens[m].qubits = g.qubits
                /\ gens[m].pc = g.pc) => (gens[m].out = g.out /\ gens[m].err = g.err)

C8_Step ==
    (\E n \in DOMAIN gens : gens'[n] # gens[n]) =>
        /\ Reported(gates') = Reported(gates)
        /\ Cardinality({n \in DOMAIN gens : gens'[n] # gens[n]}) = 1
        /\ \A n \in DOMAIN gens :
               /\ gens'[n].self = gens[n].self
               /\ gens'[n].qubits = gens[n].qubits
               /\ \E k \in 0..1 : SubSeq(gens'[n].out, 1, Len(gens'[n].out) - k) = gens[n].out

C9_ReprRoundTrips ==
    ret.op = "repr" =>
        /\ ret.value = (IF ret.cls = "CZSWAPGate" THEN "cirq.CZSWAPGate()"
                        ELSE "cirq.CXSWAPGate()")
        /\ ret.built = ret.cls
        /\ ret.equal

C9_Witness ==
    /\ ret.op = "repr"
    /\ ret.cls = "CXSWAPGate"
    /\ ret.built = "CXSWAPGate"
    /\ ret.equal

\* C10: exchanging the two qubits leaves the unitary of the class unchanged
\* exactly when the class is an InterchangeableQubitsGate: unchanged for
\* CZSWAPGate, changed for CXSWAPGate.
C10_InterchangeabilityAgreesWithUnitary ==
    ret.op = "exchange" =>
        LET same == \A i, j \in BasisIdx : ret.value[i][j] = Unitary(ret.cls)[i][j]
        IN  /\ same <=> ("InterchangeableQubitsGate" \in Bases(ret.cls))
            /\ ret.cls = "CZSWAPGate" => same
            /\ ret.cls = "CXSWAPGate" => ~same

C10_Witness ==
    /\ ret.op = "exchange"
    /\ ret.cls = "CXSWAPGate"
    /\ ret.value[2][3] = 0
    /\ ret.value[3][2] = 1

====
